---- MODULE Spec2Model ----
(***************************************************************************)
(* Master key / master password lifecycle of packages/lib/services/e2ee/   *)
(* utils.ts.  The registry of master keys and the PPK (SyncInfo), the      *)
(* settings (master password, per-key password cache) and the loaded keys  *)
(* of the EncryptionService are the state; every exported function of      *)
(* utils.ts is an operator on that state and an action of a specification. *)
(* loadMasterKeysFromSettings is also modelled one await at a time, for two *)
(* invocations that interleave; the content rows of ContentDriverDatabase   *)
(* are modelled from its tests.                                             *)
(*                                                                         *)
(* A ciphertext is modelled by the password that decrypts it (pw) and a    *)
(* revision bit (rev) that changes each time the material is encrypted     *)
(* again, so that re-encrypting under the same password is not the         *)
(* identity.                                                               *)
(***************************************************************************)
EXTENDS Integers, Sequences, FiniteSets, TLC

\* ---------------------------------------------------------------- bounds
MaxKeys == 2
MaxFlagged == 3
MaxPendingHooks == 1
MaxItems == 3

\* ------------------------------------------------------------- constants
\* '' / null / undefined: every falsy password value of the code
NoPassword == ""
Passwords == {"pwA", "pwB"}
AnyPassword == Passwords \cup {NoPassword}
\* null master key id
NoKeyId == 0
KeyIds == 1..MaxKeys
\* an id that no key of the registry carries (a key not downloaded yet)
UnknownKeyId == MaxKeys + 1
\* syncInfo.ppk when no key pair was generated
NoPpk == [pw |-> "-", rev |-> 0]

\* the two invocations of loadMasterKeysFromSettings that may be in progress
Invocations == {1, 2}

\* an invocation that has not started
IdleLoader ==
    [pc |-> "idle", i |-> 0, mks |-> <<>>, activeId |-> NoKeyId, password |-> NoPassword,
     calls |-> {}, error |-> "ok"]

\* the ids of the items, the contents of a row, and the absence of a row
ItemIds == 1..MaxItems

\* an item id that never has a row ('oops')
UnknownItemId == MaxItems + 1

Contents == {"c1", "c2"}

NoRow == "-"

VARIABLES
    masterKeys,         \* localSyncInfo().masterKeys / MasterKey.all(): sequence of keys
    ppk,                \* localSyncInfo().ppk
    activeMasterKeyId,  \* localSyncInfo().activeMasterKeyId
    encryptionEnabled,  \* localSyncInfo().e2ee
    masterPassword,     \* Setting 'encryption.masterPassword'
    passwordCache,      \* Setting 'encryption.passwordCache'
    loadedMasterKeys,   \* EncryptionService: ids of the decrypted keys it holds
    serviceActiveId,    \* EncryptionService: its active master key id
    pendingHooks,       \* calls of waitForSyncFinishedThenSync that have not finished
    loaders,            \* loadMasterKeysFromSettings: the invocations in progress
    itemContent,        \* ContentDriverDatabase: the content row of each item
    last                \* the last call: its name, arguments, outcome and the calls it made

vars == <<masterKeys, ppk, activeMasterKeyId, encryptionEnabled, masterPassword,
          passwordCache, loadedMasterKeys, serviceActiveId, pendingHooks, loaders,
          itemContent, last>>

\* ------------------------------------------------------ small helpers
Event(e, id, pw) == [ev |-> e, id |-> id, pw |-> pw]

Bool2Str(b) == IF b THEN "true" ELSE "false"

\* The state a function of utils.ts works on, with the calls made so far
\* (trace) and the exception in flight (error, "ok" when none).
Cur ==
    [masterKeys |-> masterKeys, ppk |-> ppk, activeMasterKeyId |-> activeMasterKeyId,
     encryptionEnabled |-> encryptionEnabled, masterPassword |-> masterPassword,
     passwordCache |-> passwordCache, loadedMasterKeys |-> loadedMasterKeys,
     serviceActiveId |-> serviceActiveId, pendingHooks |-> pendingHooks,
     trace |-> <<>>, error |-> "ok", result |-> ""]

Log(s, e, id, pw) == [s EXCEPT !.trace = Append(@, Event(e, id, pw))]

Throw(s, err) == [s EXCEPT !.error = err]

\* ------------------------------------------- collaborators (interfaces)
\* EncryptionService.checkMasterKeyPassword: never throws, false on a wrong password
CheckMasterKeyPassword(mk, password) == mk.pw = password

\* EncryptionService.reencryptMasterKey: the same key (same id) with new ciphertext
ReencryptMasterKey(mk, newPassword) == [mk EXCEPT !.pw = newPassword, !.rev = 1 - @]

\* ppk.pkReencryptPrivateKey
PkReencryptPrivateKey(p, newPassword) == [p EXCEPT !.pw = newPassword, !.rev = 1 - @]

\* ppk.ppkPasswordIsValid
PpkPasswordIsValid(p, password) == p.pw = password

\* EncryptionService.generateMasterKey: a fresh key, newer than every known key
GenerateMasterKey(mks, password) ==
    [id |-> Len(mks) + 1, pw |-> password, rev |-> 0, enabled |-> TRUE,
     createdTime |-> Len(mks) + 1]

\* syncInfoUtils.masterKeyEnabled
MasterKeyEnabled(mk) == mk.enabled

\* syncInfo.masterKeys.find(mk => mk.id === id): the sequence of matches (empty: undefined)
FindById(mks, id) == SelectSeq(mks, LAMBDA mk : mk.id = id)

HasKey(mks, id) == FindById(mks, id) # <<>>

\* syncInfoUtils.getActiveMasterKey: the key the active id names, if it is known
GetActiveMasterKey(s) ==
    IF s.activeMasterKeyId = NoKeyId THEN <<>> ELSE FindById(s.masterKeys, s.activeMasterKeyId)

\* MasterKey.latest: the most recently created known key
MasterKeyLatest(mks) ==
    SelectSeq(mks, LAMBDA mk : \A i \in 1..Len(mks) : mks[i].createdTime <= mk.createdTime)

\* MasterKey.save: replace the key of that id, or add it
MasterKeySave(mks, mk) ==
    IF HasKey(mks, mk.id)
    THEN [i \in 1..Len(mks) |-> IF mks[i].id = mk.id THEN mk ELSE mks[i]]
    ELSE Append(mks, mk)

\* syncInfoUtils.setEncryptionEnabled(v, activeMasterKeyId)
SetEncryptionEnabled(s, v, id) ==
    [s EXCEPT !.encryptionEnabled = v,
              !.activeMasterKeyId = IF id # NoKeyId THEN id ELSE @]

\* Setting.setValue('encryption.masterPassword', password)
SetMasterPassword(s, password) ==
    [Log(s, "setMasterPassword", NoKeyId, password) EXCEPT !.masterPassword = password]

\* EncryptionService.loadMasterKey: throws InvalidPassword unless the password verifies
LoadMasterKey(s, mk, password, makeActive) ==
    LET s1 == Log(s, "loadMasterKey", mk.id, password) IN
    IF mk.pw # password THEN Throw(s1, "InvalidPassword")
    ELSE [s1 EXCEPT !.loadedMasterKeys = @ \cup {mk.id},
                    !.serviceActiveId = IF makeActive THEN mk.id ELSE @]

\* ------------------------------------------------------------- utils.ts
\* findMasterKeyPassword preferring the password cached for the key
FindMasterKeyPasswordCacheFirst(s, mk) ==
    IF s.passwordCache[mk.id] # NoPassword THEN s.passwordCache[mk.id]
    ELSE IF s.masterPassword # NoPassword /\ CheckMasterKeyPassword(mk, s.masterPassword)
    THEN s.masterPassword
    ELSE NoPassword

\* findMasterKeyPassword: the master password if it is set and decrypts the key,
\* else the password cached for the key (NoPassword when there is none)
FindMasterKeyPassword(s, mk) ==
    IF s.masterPassword # NoPassword /\ CheckMasterKeyPassword(mk, s.masterPassword)
    THEN s.masterPassword
    ELSE s.passwordCache[mk.id]

\* body of the loop of loadMasterKeysFromSettings, with an exception of
\* loadMasterKey propagating instead of being caught
LoadOneNoCatch(s, mk, activeId) ==
    IF mk.id \in s.loadedMasterKeys THEN s
    ELSE LET password == FindMasterKeyPassword(s, mk) IN
         IF password = NoPassword THEN s
         ELSE LoadMasterKey(s, mk, password, activeId = mk.id)

\* body of the loop of loadMasterKeysFromSettings without the `continue` of
\* line 137: a key without a password is handed to loadMasterKey all the same
LoadOneNoPasswordCheck(s, mk, activeId) ==
    IF mk.id \in s.loadedMasterKeys THEN s
    ELSE LET password == FindMasterKeyPassword(s, mk)
             r == LoadMasterKey(s, mk, password, activeId = mk.id)
         IN  IF r.error = "ok" THEN r
             ELSE [Log(r, "warn", mk.id, password) EXCEPT !.error = "ok"]

\* lines 139-143 making every key it loads the active key of the service
TryLoadAlwaysActive(s, mk, password, activeId) ==
    LET r == LoadMasterKey(s, mk, password, TRUE) IN
    IF r.error = "ok" THEN r
    ELSE [Log(r, "warn", mk.id, password) EXCEPT !.error = "ok"]

\* lines 139-143: loadMasterKey, its exception caught and logged
TryLoad(s, mk, password, activeId) ==
    LET r == LoadMasterKey(s, mk, password, activeId = mk.id) IN
    IF r.error = "ok" THEN r
    ELSE [Log(r, "warn", mk.id, password) EXCEPT !.error = "ok"]

\* body of the loop of loadMasterKeysFromSettings
LoadOne(s, mk, activeId) ==
    IF mk.id \in s.loadedMasterKeys THEN s
    ELSE LET password == FindMasterKeyPassword(s, mk) IN
         IF password = NoPassword THEN s
         ELSE TryLoad(s, mk, password, activeId)

RECURSIVE LoadLoop(_, _, _, _)
LoadLoop(s, mks, activeId, i) ==
    IF i > Len(mks) \/ s.error # "ok" THEN s
    ELSE LoadLoop(LoadOne(s, mks[i], activeId), mks, activeId, i + 1)

\* loadMasterKeysFromSettings
LoadMasterKeysFromSettings(s) ==
    IF s.error # "ok" THEN s
    ELSE LoadLoop(s, s.masterKeys, s.activeMasterKeyId, 1)

\* setupAndEnableEncryption that never hands the key's id to setEncryptionEnabled
SetupAndEnableEncryptionDropsKey(s, id, password) ==
    LET s1 == SetEncryptionEnabled(Log(s, "setEncryptionEnabled", NoKeyId, "true"), TRUE, NoKeyId)
        s2 == IF password # NoPassword THEN SetMasterPassword(s1, password) ELSE s1
        s3 == Log(s2, "markAllNonEncryptedForSync", NoKeyId, NoPassword)
    IN  LoadMasterKeysFromSettings(s3)

\* setupAndEnableEncryption(service, masterKey, masterPassword); id = NoKeyId: no key
SetupAndEnableEncryption(s, id, password) ==
    LET s1 == SetEncryptionEnabled(Log(s, "setEncryptionEnabled", id, "true"), TRUE, id)
        s2 == IF password # NoPassword THEN SetMasterPassword(s1, password) ELSE s1
        s3 == Log(s2, "markAllNonEncryptedForSync", NoKeyId, NoPassword)
    IN  LoadMasterKeysFromSettings(s3)

\* setupAndDisableEncryption that asks only for the sync of the items that
\* are not encrypted, as the enabling does
SetupAndDisableEncryptionNoResync(s) ==
    LET s1 == SetEncryptionEnabled(Log(s, "setEncryptionEnabled", NoKeyId, "false"), FALSE, NoKeyId)
        s2 == Log(s1, "markAllNonEncryptedForSync", NoKeyId, NoPassword)
    IN  LoadMasterKeysFromSettings(s2)

\* setupAndDisableEncryption
SetupAndDisableEncryption(s) ==
    LET s1 == SetEncryptionEnabled(Log(s, "setEncryptionEnabled", NoKeyId, "false"), FALSE, NoKeyId)
        s2 == Log(s1, "forceSyncAll", NoKeyId, NoPassword)
    IN  LoadMasterKeysFromSettings(s2)

\* generateMasterKeyAndEnableEncryption
GenerateMasterKeyAndEnableEncryption(s, password) ==
    LET mk == GenerateMasterKey(s.masterKeys, password)
        s1 == [Log(s, "saveMasterKey", mk.id, password) EXCEPT !.masterKeys = MasterKeySave(@, mk)]
        s2 == SetupAndEnableEncryption(s1, mk.id, password)
    IN  LoadMasterKeysFromSettings(s2)

\* toggleAndSetupEncryption
ToggleAndSetupEncryption(s, enabled, id, password) ==
    LET s1 == IF ~enabled THEN SetupAndDisableEncryption(s)
              ELSE IF id # NoKeyId THEN SetupAndEnableEncryption(s, id, password)
              ELSE GenerateMasterKeyAndEnableEncryption(s, password)
    IN  LoadMasterKeysFromSettings(s1)

\* a purge that empties the whole password cache
PurgeCacheAll(cache, password) == [id \in DOMAIN cache |-> NoPassword]

\* the purge of migrateMasterPassword: drop every cache entry equal to the password
PurgeCache(cache, password) ==
    [id \in DOMAIN cache |-> IF cache[id] = password THEN NoPassword ELSE cache[id]]

\* migrateMasterPassword that does not return when the master password is
\* already set and drops one matching cache entry (the first) per call
MigrateMasterPasswordPurgeOne(s) ==
    IF s.ppk # NoPpk THEN s
    ELSE LET mk == GetActiveMasterKey(s) IN
         IF mk = <<>> THEN s
         ELSE LET password == s.passwordCache[mk[1].id] IN
              IF password = NoPassword THEN s
              ELSE LET s1 == SetMasterPassword(s, password)
                       first == CHOOSE id \in DOMAIN s.passwordCache :
                                    /\ s.passwordCache[id] = password
                                    /\ \A j \in DOMAIN s.passwordCache :
                                           s.passwordCache[j] = password => id <= j
                       s2 == [s1 EXCEPT !.passwordCache[first] = NoPassword]
                   IN  Log(Log(s2, "setPasswordCache", NoKeyId, password), "saveAll", NoKeyId, NoPassword)

\* migrateMasterPassword without the return of line 83 (a PPK exists)
MigrateMasterPasswordIgnoresPpk(s) ==
    IF s.masterPassword # NoPassword THEN s
    ELSE LET mk == GetActiveMasterKey(s) IN
         IF mk = <<>> THEN s
         ELSE LET password == s.passwordCache[mk[1].id] IN
              IF password = NoPassword THEN s
              ELSE LET s1 == SetMasterPassword(s, password)
                       s2 == [s1 EXCEPT !.passwordCache = PurgeCache(@, password)]
                   IN  Log(Log(s2, "setPasswordCache", NoKeyId, password), "saveAll", NoKeyId, NoPassword)

\* migrateMasterPassword
MigrateMasterPassword(s) ==
    IF s.masterPassword # NoPassword THEN s
    ELSE IF s.ppk # NoPpk THEN s
    ELSE LET mk == GetActiveMasterKey(s) IN
         IF mk = <<>> THEN s
         ELSE LET password == s.passwordCache[mk[1].id] IN
              IF password = NoPassword THEN s
              ELSE LET s1 == SetMasterPassword(s, password)
                       s2 == [s1 EXCEPT !.passwordCache = PurgeCache(@, password)]
                   IN  Log(Log(s2, "setPasswordCache", NoKeyId, password), "saveAll", NoKeyId, NoPassword)

\* the first loop of updateMasterPassword saving each key as soon as it is
\* re-encrypted
RECURSIVE ReencryptLoopSaving(_, _, _, _, _)
ReencryptLoopSaving(r, mks, i, currentPassword, newPassword) ==
    IF i > Len(mks) THEN [r EXCEPT !.keys = <<>>]
    ELSE LET mk == mks[i]
             s1 == Log(r.s, "reencryptMasterKey", mk.id, newPassword)
         IN  IF ~CheckMasterKeyPassword(mk, currentPassword)
             THEN [r EXCEPT !.s = Throw(s1, "ReencryptionFailed")]
             ELSE LET k == ReencryptMasterKey(mk, newPassword)
                      s2 == [Log(s1, "saveMasterKey", k.id, k.pw)
                                EXCEPT !.masterKeys = MasterKeySave(@, k)]
                  IN  ReencryptLoopSaving([s |-> s2, keys |-> Append(r.keys, k)],
                                          mks, i + 1, currentPassword, newPassword)

\* first loop of updateMasterPassword (lines 192-199): re-encrypt every key in
\* memory; r = [s, keys]: the state and reencryptedMasterKeys
RECURSIVE ReencryptLoop(_, _, _, _, _)
ReencryptLoop(r, mks, i, currentPassword, newPassword) ==
    IF i > Len(mks) THEN r
    ELSE LET mk == mks[i]
             s1 == Log(r.s, "reencryptMasterKey", mk.id, newPassword)
         IN  IF ~CheckMasterKeyPassword(mk, currentPassword)
             THEN [r EXCEPT !.s = Throw(s1, "ReencryptionFailed")]
             ELSE ReencryptLoop([s |-> s1, keys |-> Append(r.keys, ReencryptMasterKey(mk, newPassword))],
                                mks, i + 1, currentPassword, newPassword)

\* the second loop of updateMasterPassword saving the first key only
SaveLoopFirstOnly(s, keys, i) ==
    IF i > Len(keys) THEN s
    ELSE [Log(s, "saveMasterKey", keys[i].id, keys[i].pw)
             EXCEPT !.masterKeys = MasterKeySave(@, keys[i])]

\* second loop of updateMasterPassword (lines 210-212): MasterKey.save of each
RECURSIVE SaveLoop(_, _, _)
SaveLoop(s, keys, i) ==
    IF i > Len(keys) THEN s
    ELSE SaveLoop([Log(s, "saveMasterKey", keys[i].id, keys[i].pw)
                      EXCEPT !.masterKeys = MasterKeySave(@, keys[i])], keys, i + 1)

\* lines 221-223 of updateMasterPassword awaiting the hook: when the call
\* returns the hook has finished
FinishUpdateAwaitsHook(s, newPassword, hook) ==
    LET s1 == SetMasterPassword(s, newPassword) IN
    IF hook THEN Log(s1, "waitForSyncFinishedThenSync", NoKeyId, NoPassword) ELSE s1

\* lines 221-223 of updateMasterPassword: `void waitForSyncFinishedThenSync()`
\* starts the hook and does not await it
FinishUpdate(s, newPassword, hook) ==
    LET s1 == SetMasterPassword(s, newPassword) IN
    IF hook
    THEN [Log(s1, "waitForSyncFinishedThenSync", NoKeyId, NoPassword)
             EXCEPT !.pendingHooks = @ + 1]
    ELSE s1

\* updateMasterPassword without the check of line 187
UpdateMasterPasswordNoCheck(s, currentPassword, newPassword, hook) ==
    IF s.ppk # NoPpk \/ Len(s.masterKeys) > 0
    THEN LET r1 == ReencryptLoop([s |-> s, keys |-> <<>>], s.masterKeys, 1,
                                 currentPassword, newPassword)
         IN  IF r1.s.error # "ok" THEN r1.s
             ELSE IF r1.s.ppk # NoPpk /\ ~PpkPasswordIsValid(r1.s.ppk, currentPassword)
             THEN Throw(Log(r1.s, "pkReencryptPrivateKey", NoKeyId, newPassword), "ReencryptionFailed")
             ELSE LET reencryptedPpk == IF r1.s.ppk # NoPpk
                                        THEN PkReencryptPrivateKey(r1.s.ppk, newPassword)
                                        ELSE NoPpk
                      s2 == IF r1.s.ppk # NoPpk
                            THEN Log(r1.s, "pkReencryptPrivateKey", NoKeyId, newPassword)
                            ELSE r1.s
                      s3 == SaveLoop(s2, r1.keys, 1)
                      s4 == IF reencryptedPpk # NoPpk
                            THEN [Log(s3, "saveLocalSyncInfo", NoKeyId, newPassword)
                                     EXCEPT !.ppk = reencryptedPpk]
                            ELSE s3
                  IN  FinishUpdate(s4, newPassword, hook)
    ELSE FinishUpdate(s, newPassword, hook)

\* updateMasterPassword saving the re-encrypted keys before it re-encrypts the PPK
UpdateMasterPasswordKeysFirst(s, currentPassword, newPassword, hook) ==
    IF s.ppk # NoPpk \/ Len(s.masterKeys) > 0
    THEN IF currentPassword = NoPassword THEN Throw(s, "MissingCurrentPassword")
         ELSE LET r1 == ReencryptLoop([s |-> s, keys |-> <<>>], s.masterKeys, 1,
                                      currentPassword, newPassword)
              IN  IF r1.s.error # "ok" THEN r1.s
                  ELSE LET s2 == SaveLoop(r1.s, r1.keys, 1) IN
                       IF s2.ppk # NoPpk /\ ~PpkPasswordIsValid(s2.ppk, currentPassword)
                       THEN Throw(Log(s2, "pkReencryptPrivateKey", NoKeyId, newPassword), "ReencryptionFailed")
                       ELSE LET s3 == IF s2.ppk # NoPpk
                                      THEN [Log(Log(s2, "pkReencryptPrivateKey", NoKeyId, newPassword),
                                                "saveLocalSyncInfo", NoKeyId, newPassword)
                                               EXCEPT !.ppk = PkReencryptPrivateKey(s2.ppk, newPassword)]
                                      ELSE s2
                            IN  FinishUpdate(s3, newPassword, hook)
    ELSE FinishUpdate(s, newPassword, hook)

\* updateMasterPassword(currentPassword, newPassword, waitForSyncFinishedThenSync)
UpdateMasterPassword(s, currentPassword, newPassword, hook) ==
    IF s.ppk # NoPpk \/ Len(s.masterKeys) > 0
    THEN IF currentPassword = NoPassword THEN Throw(s, "MissingCurrentPassword")
         ELSE LET r1 == ReencryptLoop([s |-> s, keys |-> <<>>], s.masterKeys, 1,
                                      currentPassword, newPassword)
              IN  IF r1.s.error # "ok" THEN r1.s
                  ELSE IF r1.s.ppk # NoPpk /\ ~PpkPasswordIsValid(r1.s.ppk, currentPassword)
                  THEN Throw(Log(r1.s, "pkReencryptPrivateKey", NoKeyId, newPassword), "ReencryptionFailed")
                  ELSE LET reencryptedPpk == IF r1.s.ppk # NoPpk
                                             THEN PkReencryptPrivateKey(r1.s.ppk, newPassword)
                                             ELSE NoPpk
                           s2 == IF r1.s.ppk # NoPpk
                                 THEN Log(r1.s, "pkReencryptPrivateKey", NoKeyId, newPassword)
                                 ELSE r1.s
                           s3 == SaveLoop(s2, r1.keys, 1)
                           s4 == IF reencryptedPpk # NoPpk
                                 THEN [Log(s3, "saveLocalSyncInfo", NoKeyId, newPassword)
                                          EXCEPT !.ppk = reencryptedPpk]
                                 ELSE s3
                       IN  FinishUpdate(s4, newPassword, hook)
    ELSE FinishUpdate(s, newPassword, hook)

\* the loop of showMissingMasterKeyMessage (lines 154-165), i counting down
RECURSIVE ShowMissingLoop(_, _, _)
ShowMissingLoop(mks, notLoadedMasterKeys, i) ==
    IF i < 1 THEN notLoadedMasterKeys
    ELSE LET mk == IF i <= Len(notLoadedMasterKeys)
                   THEN FindById(mks, notLoadedMasterKeys[i]) ELSE <<>>
         IN  IF mk = <<>> THEN ShowMissingLoop(mks, notLoadedMasterKeys, i - 1)
             ELSE IF ~MasterKeyEnabled(mk[1])
             THEN ShowMissingLoop(mks, SubSeq(notLoadedMasterKeys, 1, Len(notLoadedMasterKeys) - 1), i - 1)
             ELSE ShowMissingLoop(mks, notLoadedMasterKeys, i - 1)

\* showMissingMasterKeyMessage without the early return of line 150
ShowMissingMasterKeyMessageNoEarlyReturn(mks, notLoadedMasterKeys) ==
    Len(ShowMissingLoop(mks, notLoadedMasterKeys, Len(notLoadedMasterKeys))) # 0

\* showMissingMasterKeyMessage(syncInfo, notLoadedMasterKeys)
ShowMissingMasterKeyMessage(mks, notLoadedMasterKeys) ==
    IF Len(mks) = 0 THEN FALSE
    ELSE Len(ShowMissingLoop(mks, notLoadedMasterKeys, Len(notLoadedMasterKeys))) # 0

\* getDefaultMasterKey: the active key, else the latest (<<>>: none)
GetDefaultMasterKey(s) ==
    LET mk == GetActiveMasterKey(s) IN
    IF mk # <<>> THEN mk ELSE MasterKeyLatest(s.masterKeys)

\* getMasterPassword(throwIfNotSet)
GetMasterPassword(s, throwIfNotSet) ==
    IF s.masterPassword = NoPassword /\ throwIfNotSet
    THEN Throw(s, "undefinedMasterPassword")
    ELSE [s EXCEPT !.result = s.masterPassword]

\* masterPasswordIsValid consulting the default master key before the PPK
MasterPasswordIsValidKeyFirst(s, password) ==
    LET masterKey == GetDefaultMasterKey(s) IN
    IF masterKey # <<>>
    THEN [s EXCEPT !.result = Bool2Str(CheckMasterKeyPassword(masterKey[1], password))]
    ELSE IF s.ppk # NoPpk
    THEN [s EXCEPT !.result = Bool2Str(PpkPasswordIsValid(s.ppk, password))]
    ELSE Throw(s, "noKeyToDecrypt")

\* masterPasswordIsValid(masterPassword)
MasterPasswordIsValid(s, password) ==
    IF s.ppk # NoPpk
    THEN [s EXCEPT !.result = Bool2Str(PpkPasswordIsValid(s.ppk, password))]
    ELSE LET masterKey == GetDefaultMasterKey(s) IN
         IF masterKey # <<>>
         THEN [s EXCEPT !.result = Bool2Str(CheckMasterKeyPassword(masterKey[1], password))]
         ELSE Throw(s, "noKeyToDecrypt")

\* getMasterPasswordStatus without the catch of lines 241-244
GetMasterPasswordStatusNoCatch(s) ==
    LET p == GetMasterPassword(s, FALSE) IN
    IF p.result = NoPassword THEN [s EXCEPT !.result = "NotSet"]
    ELSE LET v == MasterPasswordIsValid(s, p.result) IN
         IF v.error = "ok"
         THEN [s EXCEPT !.result = IF v.result = "true" THEN "Valid" ELSE "Invalid"]
         ELSE v

\* getMasterPasswordStatus
GetMasterPasswordStatus(s) ==
    LET p == GetMasterPassword(s, FALSE) IN
    IF p.result = NoPassword THEN [s EXCEPT !.result = "NotSet"]
    ELSE LET v == MasterPasswordIsValid(s, p.result) IN
         IF v.error = "ok"
         THEN [s EXCEPT !.result = IF v.result = "true" THEN "Valid" ELSE "Invalid"]
         ELSE IF v.error = "noKeyToDecrypt" THEN [s EXCEPT !.result = "Loaded"]
         ELSE v

\* ------------------------------------------- ContentDriverDatabase
HasRow(rows, id) == id \in DOMAIN rows /\ rows[id] # NoRow

\* driver.write(itemId, content): the row of the item holds the content
DriverWrite(rows, id, content) ==
    [rows |-> [rows EXCEPT ![id] = content], error |-> "ok", result |-> ""]

\* driver.read(itemId): the content of the row; an error when there is no row
DriverRead(rows, id) ==
    IF HasRow(rows, id)
    THEN [rows |-> rows, error |-> "ok", result |-> rows[id]]
    ELSE [rows |-> rows, error |-> "NoSuchRow", result |-> ""]

\* driver.delete failing, as read does, when the item has no row
DriverDeleteStrict(rows, id) ==
    IF HasRow(rows, id)
    THEN [rows |-> [rows EXCEPT ![id] = NoRow], error |-> "ok", result |-> ""]
    ELSE [rows |-> rows, error |-> "NoSuchRow", result |-> ""]

\* driver.delete(itemId): the content of the item is gone; nothing happens
\* when the item has no row
DriverDelete(rows, id) ==
    IF HasRow(rows, id)
    THEN [rows |-> [rows EXCEPT ![id] = NoRow], error |-> "ok", result |-> ""]
    ELSE [rows |-> rows, error |-> "ok", result |-> ""]

\* ------------------------------------------------------- initial states
\* the registries of n keys: ids 1..n, each encrypted under a password of pws,
\* enabled as in ens, created in the order of `order` ("asc": oldest first)
Registry(n, pws, ens, order) ==
    {[i \in 1..n |-> [id |-> i, pw |-> pw[i], rev |-> 0, enabled |-> en[i],
                      createdTime |-> IF order = "asc" THEN i ELSE n + 1 - i]] :
        pw \in [1..n -> pws], en \in [1..n -> ens]}

Registries(pws, ens, orders) ==
    UNION {Registry(n, pws, ens, order) : n \in 0..MaxKeys, order \in orders}

Ppks == {NoPpk} \cup {[pw |-> p, rev |-> 0] : p \in Passwords}

NoCall ==
    [op |-> "init", key |-> NoKeyId, cur |-> NoPassword, new |-> NoPassword, flag |-> FALSE,
     list |-> <<>>, outcome |-> "ok", result |-> "", trace |-> <<>>]

Call(op, key, cur, new, flag, list) ==
    [op |-> op, key |-> key, cur |-> cur, new |-> new, flag |-> flag, list |-> list]

\* the state after a call that ended in r, and the record of the call
Commit(r, c) ==
    /\ masterKeys' = r.masterKeys
    /\ ppk' = r.ppk
    /\ activeMasterKeyId' = r.activeMasterKeyId
    /\ encryptionEnabled' = r.encryptionEnabled
    /\ masterPassword' = r.masterPassword
    /\ passwordCache' = r.passwordCache
    /\ loadedMasterKeys' = r.loadedMasterKeys
    /\ serviceActiveId' = r.serviceActiveId
    /\ pendingHooks' = r.pendingHooks
    /\ UNCHANGED <<loaders, itemContent>>
    /\ last' = [op |-> c.op, key |-> c.key, cur |-> c.cur, new |-> c.new, flag |-> c.flag,
                list |-> c.list, outcome |-> r.error, result |-> r.result, trace |-> r.trace]

\* the service at start-up: nothing is loaded yet, no call was made, no hook
\* runs, no loading is in progress, no item has content
Fresh ==
    /\ loadedMasterKeys = {}
    /\ serviceActiveId = NoKeyId
    /\ pendingHooks = 0
    /\ loaders = [p \in Invocations |-> IdleLoader]
    /\ itemContent = [id \in ItemIds |-> NoRow]
    /\ last = NoCall

NoCache == [id \in KeyIds |-> NoPassword]

Caches == [KeyIds -> AnyPassword]

\* the active key id of a registry: none, or the id of one of its keys
ActiveIds(mks) == {NoKeyId} \cup {mks[i].id : i \in 1..Len(mks)}

\* a device that joins an account: the keys and the PPK came down by
\* synchronisation, under any passwords; no password was entered yet
Init ==
    /\ masterKeys \in Registries(Passwords, {TRUE}, {"asc"})
    /\ ppk \in Ppks
    /\ activeMasterKeyId \in ActiveIds(masterKeys)
    /\ encryptionEnabled \in BOOLEAN
    /\ masterPassword = NoPassword
    /\ passwordCache = NoCache
    /\ Fresh

\* password change: any keys, any PPK, any stored master password
InitUpdate ==
    /\ masterKeys \in Registries(Passwords, {TRUE}, {"asc"})
    /\ ppk \in Ppks
    /\ activeMasterKeyId = NoKeyId
    /\ encryptionEnabled = TRUE
    /\ masterPassword \in AnyPassword
    /\ passwordCache = NoCache
    /\ Fresh

\* migration: any settings, with or without a PPK, the active id possibly
\* naming a key that is not in the registry
InitMigrate ==
    /\ masterKeys \in Registries({"pwA"}, {TRUE}, {"asc"})
    /\ ppk \in {NoPpk, [pw |-> "pwA", rev |-> 0]}
    /\ activeMasterKeyId \in ActiveIds(masterKeys) \cup {UnknownKeyId}
    /\ encryptionEnabled = TRUE
    /\ masterPassword \in AnyPassword
    /\ passwordCache \in Caches
    /\ Fresh

\* loading: keys under any passwords, any master password and cache
InitLoad ==
    /\ masterKeys \in Registries(Passwords, {TRUE}, {"asc"})
    /\ ppk = NoPpk
    /\ activeMasterKeyId \in ActiveIds(masterKeys)
    /\ encryptionEnabled = TRUE
    /\ masterPassword \in AnyPassword
    /\ passwordCache \in Caches
    /\ Fresh

\* password resolution: as for loading
InitFind ==
    /\ masterKeys \in Registries(Passwords, {TRUE}, {"asc"})
    /\ ppk = NoPpk
    /\ activeMasterKeyId = NoKeyId
    /\ encryptionEnabled = TRUE
    /\ masterPassword \in AnyPassword
    /\ passwordCache \in Caches
    /\ Fresh

\* password status: keys created in either order, any PPK, any active id
InitStatus ==
    /\ masterKeys \in Registries(Passwords, {TRUE}, {"asc", "desc"})
    /\ ppk \in Ppks
    /\ activeMasterKeyId \in ActiveIds(masterKeys) \cup {UnknownKeyId}
    /\ encryptionEnabled = TRUE
    /\ masterPassword \in AnyPassword
    /\ passwordCache = NoCache
    /\ Fresh

\* missing key message: keys enabled or disabled
InitMissing ==
    /\ masterKeys \in Registries({"pwA"}, BOOLEAN, {"asc"})
    /\ ppk = NoPpk
    /\ activeMasterKeyId = NoKeyId
    /\ encryptionEnabled = TRUE
    /\ masterPassword = NoPassword
    /\ passwordCache = NoCache
    /\ Fresh

\* --------------------------------------------------------------- actions
KnownIds == {masterKeys[i].id : i \in 1..Len(masterKeys)}

EnableEncryption ==
    \E id \in KnownIds \cup {NoKeyId}, password \in AnyPassword :
        Commit(SetupAndEnableEncryption(Cur, id, password),
               Call("setupAndEnableEncryption", id, NoPassword, password, TRUE, <<>>))

DisableEncryption ==
    Commit(SetupAndDisableEncryption(Cur),
           Call("setupAndDisableEncryption", NoKeyId, NoPassword, NoPassword, FALSE, <<>>))

ToggleEncryption ==
    \E enabled \in BOOLEAN, id \in KnownIds \cup {NoKeyId}, password \in AnyPassword :
        /\ (enabled /\ id = NoKeyId) => Len(masterKeys) < MaxKeys
        /\ Commit(ToggleAndSetupEncryption(Cur, enabled, id, password),
                  Call("toggleAndSetupEncryption", id, NoPassword, password, enabled, <<>>))

GenerateKey ==
    \E password \in AnyPassword :
        /\ Len(masterKeys) < MaxKeys
        /\ Commit(GenerateMasterKeyAndEnableEncryption(Cur, password),
                  Call("generateMasterKeyAndEnableEncryption", NoKeyId, NoPassword, password, TRUE, <<>>))

Migrate ==
    Commit(MigrateMasterPassword(Cur),
           Call("migrateMasterPassword", NoKeyId, NoPassword, NoPassword, FALSE, <<>>))

LoadAll ==
    Commit(LoadMasterKeysFromSettings(Cur),
           Call("loadMasterKeysFromSettings", NoKeyId, NoPassword, NoPassword, FALSE, <<>>))

ChangePassword ==
    \E currentPassword \in AnyPassword, newPassword \in AnyPassword, hook \in BOOLEAN :
        /\ hook => pendingHooks < MaxPendingHooks
        /\ Commit(UpdateMasterPassword(Cur, currentPassword, newPassword, hook),
                  Call("updateMasterPassword", NoKeyId, currentPassword, newPassword, hook, <<>>))

\* a hook started by updateMasterPassword finishes, some time after the call
HookFinished ==
    /\ pendingHooks > 0
    /\ pendingHooks' = pendingHooks - 1
    /\ last' = [NoCall EXCEPT !.op = "waitForSyncFinishedThenSync"]
    /\ UNCHANGED <<masterKeys, ppk, activeMasterKeyId, encryptionEnabled, masterPassword,
                   passwordCache, loadedMasterKeys, serviceActiveId, loaders, itemContent>>

Next ==
    \/ EnableEncryption
    \/ DisableEncryption
    \/ ToggleEncryption
    \/ GenerateKey
    \/ Migrate
    \/ LoadAll
    \/ ChangePassword
    \/ HookFinished

Spec == Init /\ [][Next]_vars

\* ------------------------------------------------- the pure functions
\* every list of flagged ids: known ids, and one id of no known key
FlaggedLists == UNION {[1..n -> 1..UnknownKeyId] : n \in 0..MaxFlagged}

FindPassword ==
    \E i \in 1..Len(masterKeys) :
        Commit([Cur EXCEPT !.result = FindMasterKeyPassword(Cur, masterKeys[i])],
               Call("findMasterKeyPassword", masterKeys[i].id, NoPassword, NoPassword, FALSE, <<>>))

ShowMissing ==
    \E notLoadedMasterKeys \in FlaggedLists :
        Commit([Cur EXCEPT !.result = Bool2Str(ShowMissingMasterKeyMessage(masterKeys, notLoadedMasterKeys))],
               Call("showMissingMasterKeyMessage", NoKeyId, NoPassword, NoPassword, FALSE, notLoadedMasterKeys))

DefaultKey ==
    LET mk == GetDefaultMasterKey(Cur) IN
    Commit([Cur EXCEPT !.result = IF mk = <<>> THEN "null" ELSE ToString(mk[1].id)],
           Call("getDefaultMasterKey", NoKeyId, NoPassword, NoPassword, FALSE, <<>>))

ReadMasterPassword ==
    \E throwIfNotSet \in BOOLEAN :
        Commit(GetMasterPassword(Cur, throwIfNotSet),
               Call("getMasterPassword", NoKeyId, NoPassword, NoPassword, throwIfNotSet, <<>>))

CheckValid ==
    \E password \in AnyPassword :
        Commit(MasterPasswordIsValid(Cur, password),
               Call("masterPasswordIsValid", NoKeyId, password, NoPassword, FALSE, <<>>))

Status ==
    Commit(GetMasterPasswordStatus(Cur),
           Call("getMasterPasswordStatus", NoKeyId, NoPassword, NoPassword, FALSE, <<>>))

\* ------------------------------------------- the content driver
\* the state after a call of the driver that ended in r, and its record
CommitDriver(r, op, id, content) ==
    /\ itemContent' = r.rows
    /\ last' = [NoCall EXCEPT !.op = op, !.key = id, !.new = content,
                              !.outcome = r.error, !.result = r.result]
    /\ UNCHANGED <<masterKeys, ppk, activeMasterKeyId, encryptionEnabled, masterPassword,
                   passwordCache, loadedMasterKeys, serviceActiveId, pendingHooks, loaders>>

WriteContent ==
    \E id \in ItemIds, content \in Contents :
        CommitDriver(DriverWrite(itemContent, id, content), "write", id, content)

ReadContent ==
    \E id \in ItemIds \cup {UnknownItemId} :
        CommitDriver(DriverRead(itemContent, id), "read", id, "")

DeleteContent ==
    \E id \in ItemIds \cup {UnknownItemId} :
        CommitDriver(DriverDelete(itemContent, id), "delete", id, "")

\* an empty items table, no keys
InitDriver ==
    /\ masterKeys = <<>>
    /\ ppk = NoPpk
    /\ activeMasterKeyId = NoKeyId
    /\ encryptionEnabled = FALSE
    /\ masterPassword = NoPassword
    /\ passwordCache = NoCache
    /\ Fresh

NextDriver ==
    \/ WriteContent
    \/ ReadContent
    \/ DeleteContent

SpecDriver == InitDriver /\ [][NextDriver]_vars

\* --------------------- loadMasterKeysFromSettings, one await at a time
\* An invocation l runs from one await to the next without interruption:
\* "all" awaits MasterKey.all() (line 127), "find" awaits
\* findMasterKeyPassword (line 136), "load" awaits service.loadMasterKey
\* (line 140).

\* the first index from i on of a key that is not loaded (line 134)
RECURSIVE NextNotLoaded(_, _, _)
NextNotLoaded(mks, loaded, i) ==
    IF i > Len(mks) \/ mks[i].id \notin loaded THEN i
    ELSE NextNotLoaded(mks, loaded, i + 1)

\* the loop from index i up to its next await, or to its end
RunToAwait(l, loaded, i) ==
    LET j == NextNotLoaded(l.mks, loaded, i) IN
    IF l.error # "ok" THEN [l EXCEPT !.pc = "failed", !.i = 0]
    ELSE IF j > Len(l.mks) THEN [l EXCEPT !.pc = "done", !.i = 0]
    ELSE [l EXCEPT !.pc = "find", !.i = j]

LoaderUnchanged ==
    UNCHANGED <<masterKeys, ppk, activeMasterKeyId, encryptionEnabled, masterPassword,
                passwordCache, pendingHooks, itemContent, last>>

\* loadMasterKeysFromSettings is called: it runs up to `await MasterKey.all()`
LoaderStart(p) ==
    /\ loaders[p].pc \in {"idle", "done"}
    /\ loaders' = [loaders EXCEPT ![p] = [IdleLoader EXCEPT !.pc = "all"]]
    /\ UNCHANGED <<loadedMasterKeys, serviceActiveId>>
    /\ LoaderUnchanged

\* MasterKey.all() has answered (lines 127-134)
LoaderGotKeys(p) ==
    /\ loaders[p].pc = "all"
    /\ loaders' = [loaders EXCEPT ![p] =
                       RunToAwait([@ EXCEPT !.mks = masterKeys, !.activeId = activeMasterKeyId],
                                  loadedMasterKeys, 1)]
    /\ UNCHANGED <<loadedMasterKeys, serviceActiveId>>
    /\ LoaderUnchanged

\* findMasterKeyPassword has answered (lines 136-140)
LoaderGotPassword(p) ==
    /\ loaders[p].pc = "find"
    /\ LET l == loaders[p]
           password == FindMasterKeyPassword(Cur, l.mks[l.i])
       IN  loaders' = [loaders EXCEPT ![p] =
                          IF password = NoPassword
                          THEN RunToAwait(l, loadedMasterKeys, l.i + 1)
                          ELSE [l EXCEPT !.pc = "load", !.password = password]]
    /\ UNCHANGED <<loadedMasterKeys, serviceActiveId>>
    /\ LoaderUnchanged

\* service.loadMasterKey has ended (lines 139-143, then the loop goes on)
LoaderLoaded(p) ==
    /\ loaders[p].pc = "load"
    /\ LET l == loaders[p]
           mk == l.mks[l.i]
           r == TryLoad(Cur, mk, l.password, l.activeId)
       IN  /\ loadedMasterKeys' = r.loadedMasterKeys
           /\ serviceActiveId' = r.serviceActiveId
           /\ loaders' = [loaders EXCEPT ![p] =
                             RunToAwait([l EXCEPT !.calls = @ \cup {mk.id},
                                                  !.password = NoPassword,
                                                  !.error = r.error],
                                        r.loadedMasterKeys, l.i + 1)]
    /\ LoaderUnchanged

NextConcurrent ==
    \E p \in Invocations :
        \/ LoaderStart(p)
        \/ LoaderGotKeys(p)
        \/ LoaderGotPassword(p)
        \/ LoaderLoaded(p)

SpecConcurrent == InitLoad /\ [][NextConcurrent]_vars

\* ------------------------------------------- one specification per part
NextUpdate ==
    \/ ChangePassword
    \/ HookFinished

SpecUpdate == InitUpdate /\ [][NextUpdate]_vars

NextMigrate == Migrate

SpecMigrate == InitMigrate /\ [][NextMigrate]_vars

NextLoad ==
    \/ LoadAll
    \/ EnableEncryption
    \/ DisableEncryption

SpecLoad == InitLoad /\ [][NextLoad]_vars

NextFind == FindPassword

SpecFind == InitFind /\ [][NextFind]_vars

NextStatus ==
    \/ Status
    \/ CheckValid
    \/ DefaultKey
    \/ ReadMasterPassword

SpecStatus == InitStatus /\ [][NextStatus]_vars

NextMissing == ShowMissing

SpecMissing == InitMissing /\ [][NextMissing]_vars

\* ------------------------------------------------------------ properties
UpdateCall == "updateMasterPassword"

\* every key of the registry and the PPK, if any, decrypt with the password
AllUnder(mks, p, password) ==
    /\ \A i \in 1..Len(mks) : CheckMasterKeyPassword(mks[i], password)
    /\ p # NoPpk => PpkPasswordIsValid(p, password)

Ids(mks) == {mks[i].id : i \in 1..Len(mks)}

\* positions of the events of the last call that are named in evs
Positions(evs) == {i \in 1..Len(last.trace) : last.trace[i].ev \in evs}

ReencryptEvents == {"reencryptMasterKey", "pkReencryptPrivateKey"}

WriteEvents == {"saveMasterKey", "saveLocalSyncInfo", "setMasterPassword"}

\* C1: when the re-encryption of a master key or of the PPK fails (the current
\* password is given but does not decrypt one of them), updateMasterPassword
\* raises and the persisted master keys, the persisted PPK and the stored
\* master password are what they were before the call.
C1_NoPartialReencryption ==
    [][(/\ last'.op = UpdateCall
        /\ last'.cur # NoPassword
        /\ ~AllUnder(masterKeys, ppk, last'.cur))
       => (/\ last'.outcome = "ReencryptionFailed"
           /\ masterKeys' = masterKeys
           /\ ppk' = ppk
           /\ masterPassword' = masterPassword)]_vars

\* C1 witness: a call that re-encrypted the first key and failed on the second
C1_Witness ==
    /\ last.op = UpdateCall
    /\ last.outcome = "ReencryptionFailed"
    /\ Len(masterKeys) >= 2
    /\ Cardinality(Positions({"reencryptMasterKey"})) >= 2
    /\ masterKeys[1].pw = last.cur
    /\ masterKeys[1].pw # last.new

\* C4: with a master key or a PPK present, updateMasterPassword called without
\* the current password fails with MissingCurrentPassword before it attempts
\* any re-encryption, and changes neither the registry, the PPK nor the stored
\* master password.
C4_MissingCurrentPassword ==
    [][(/\ last'.op = UpdateCall
        /\ last'.cur = NoPassword
        /\ (Len(masterKeys) > 0 \/ ppk # NoPpk))
       => (/\ last'.outcome = "MissingCurrentPassword"
           /\ last'.trace = <<>>
           /\ masterKeys' = masterKeys
           /\ ppk' = ppk
           /\ masterPassword' = masterPassword)]_vars

\* C4 witness: a call refused for the missing current password, keys present
C4_Witness ==
    /\ last.op = UpdateCall
    /\ last.cur = NoPassword
    /\ last.outcome = "MissingCurrentPassword"
    /\ Len(masterKeys) > 0

\* C5 as stated: when every master key and the PPK are under oldPw, the call
\* succeeds, every key and the PPK then verify against newPw and no longer
\* against oldPw, the master password is newPw, the key ids are unchanged.
C5_Original ==
    [][(/\ last'.op = UpdateCall
        /\ AllUnder(masterKeys, ppk, last'.cur))
       => (/\ last'.outcome = "ok"
           /\ AllUnder(masterKeys', ppk', last'.new)
           /\ \A i \in 1..Len(masterKeys') : ~CheckMasterKeyPassword(masterKeys'[i], last'.cur)
           /\ ppk' # NoPpk => ~PpkPasswordIsValid(ppk', last'.cur)
           /\ masterPassword' = last'.new
           /\ Ids(masterKeys') = Ids(masterKeys))]_vars

\* C5 amended: when every master key and the PPK are under oldPw, and oldPw is
\* not empty if there is a key or a PPK, the call succeeds, every key and the
\* PPK then verify against newPw, the master password is newPw, the key ids
\* are unchanged and the PPK is present exactly if it was; when newPw differs
\* from oldPw, no key and no PPK verifies against oldPw any more.
C5_ReencryptsAll ==
    [][(/\ last'.op = UpdateCall
        /\ AllUnder(masterKeys, ppk, last'.cur)
        /\ (Len(masterKeys) > 0 \/ ppk # NoPpk) => last'.cur # NoPassword)
       => (/\ last'.outcome = "ok"
           /\ AllUnder(masterKeys', ppk', last'.new)
           /\ last'.new # last'.cur =>
                 /\ \A i \in 1..Len(masterKeys') : ~CheckMasterKeyPassword(masterKeys'[i], last'.cur)
                 /\ ppk' # NoPpk => ~PpkPasswordIsValid(ppk', last'.cur)
           /\ masterPassword' = last'.new
           /\ (ppk' = NoPpk) = (ppk = NoPpk)
           /\ Len(masterKeys') = Len(masterKeys)
           /\ Ids(masterKeys') = Ids(masterKeys))]_vars

\* C5 witness: a successful change to another password with two keys and a PPK
C5_Witness ==
    /\ last.op = UpdateCall
    /\ last.outcome = "ok"
    /\ last.new # last.cur
    /\ Len(masterKeys) >= 2
    /\ ppk # NoPpk
    /\ AllUnder(masterKeys, ppk, last.new)
    /\ masterPassword = last.new

\* C6: in one call of updateMasterPassword nothing is written (no key saved, no
\* SyncInfo saved, no master password set) before every master key and the PPK
\* were re-encrypted, a failed call writes nothing, and the writes come in the
\* order: the keys, then SyncInfo with the PPK, then the master password.
C6_PersistAfterReencrypt ==
    last.op = UpdateCall =>
        /\ \A w \in Positions(WriteEvents) : \A e \in Positions(ReencryptEvents) : e < w
        /\ last.outcome # "ok" => Positions(WriteEvents) = {}
        /\ \A k \in Positions({"saveMasterKey"}) :
               \A y \in Positions({"saveLocalSyncInfo", "setMasterPassword"}) : k < y
        /\ \A y \in Positions({"saveLocalSyncInfo"}) :
               \A m \in Positions({"setMasterPassword"}) : y < m
        /\ last.outcome = "ok" =>
               /\ Cardinality(Positions({"setMasterPassword"})) = 1
               /\ Cardinality(Positions({"reencryptMasterKey"})) = Len(masterKeys)
               /\ Cardinality(Positions({"saveMasterKey"})) = Len(masterKeys)
               /\ Cardinality(Positions({"pkReencryptPrivateKey"})) = (IF ppk # NoPpk THEN 1 ELSE 0)
               /\ Cardinality(Positions({"saveLocalSyncInfo"})) = (IF ppk # NoPpk THEN 1 ELSE 0)

\* C6 witness: a successful call that saved two keys, SyncInfo and the password
C6_Witness ==
    /\ last.op = UpdateCall
    /\ last.outcome = "ok"
    /\ Cardinality(Positions({"saveMasterKey"})) >= 2
    /\ Positions({"saveLocalSyncInfo"}) # {}
    /\ Positions({"setMasterPassword"}) # {}

\* C2: once the stored master password is not empty, no call of an operation
\* of utils.ts, whatever its arguments, makes it the empty string.
C2_PasswordNeverEmptied ==
    [][masterPassword # NoPassword => masterPassword' # NoPassword]_vars

\* C3: with at least one known master key, showMissingMasterKeyMessage is true
\* exactly if one of the flagged ids is the id of a known key that is enabled.
C3_MissingIffKnownEnabled ==
    (last.op = "showMissingMasterKeyMessage" /\ Len(masterKeys) > 0) =>
        ((last.result = "true") =
            (\E i \in 1..Len(last.list) : \E k \in 1..Len(masterKeys) :
                 /\ masterKeys[k].id = last.list[i]
                 /\ MasterKeyEnabled(masterKeys[k])))

\* the calls that end with loadMasterKeysFromSettings
LoadingCalls ==
    {"loadMasterKeysFromSettings", "setupAndEnableEncryption", "setupAndDisableEncryption",
     "toggleAndSetupEncryption", "generateMasterKeyAndEnableEncryption"}

\* C7: loadMasterKeysFromSettings raises nothing, and when it returns every
\* key that its resolved password decrypts is loaded in the service, whatever
\* happened to the other keys.
C7_LoadAllBestEffort ==
    last.op \in LoadingCalls =>
        /\ last.outcome = "ok"
        /\ \A i \in 1..Len(masterKeys) :
               LET password == FindMasterKeyPassword(Cur, masterKeys[i]) IN
               (password # NoPassword /\ CheckMasterKeyPassword(masterKeys[i], password))
                   => masterKeys[i].id \in loadedMasterKeys

\* C7 witness: a load in which the first key failed with InvalidPassword and
\* the second key was loaded after it
C7_Witness ==
    /\ last.op = "loadMasterKeysFromSettings"
    /\ Len(masterKeys) >= 2
    /\ \E w \in Positions({"warn"}) : \E l \in Positions({"loadMasterKey"}) :
           /\ w < l
           /\ last.trace[w].id = masterKeys[1].id
           /\ last.trace[l].id = masterKeys[2].id
    /\ masterKeys[1].id \notin loadedMasterKeys
    /\ masterKeys[2].id \in loadedMasterKeys

\* C8: findMasterKeyPassword returns the master password when it is set and
\* decrypts the key, whatever is cached for the key; otherwise it returns the
\* password cached under the key's id as it is, or none when none is cached.
C8_PasswordPrecedence ==
    last.op = "findMasterKeyPassword" =>
        \A i \in 1..Len(masterKeys) :
            masterKeys[i].id = last.key =>
                /\ last.outcome = "ok"
                /\ (masterPassword # NoPassword /\ masterKeys[i].pw = masterPassword)
                       => last.result = masterPassword
                /\ ~(masterPassword # NoPassword /\ masterKeys[i].pw = masterPassword)
                       => last.result = passwordCache[last.key]

\* C8 witness: the master password decrypts the key, another password is cached
\* for the key, and the master password is returned
C8_Witness ==
    /\ last.op = "findMasterKeyPassword"
    /\ \E i \in 1..Len(masterKeys) :
           /\ masterKeys[i].id = last.key
           /\ masterKeys[i].pw = masterPassword
    /\ passwordCache[last.key] \in Passwords \ {masterPassword}
    /\ last.result = masterPassword

\* C9: a call of migrateMasterPassword that follows a call of
\* migrateMasterPassword changes neither the master password nor the cache.
C9_MigrateIdempotent ==
    [][(last.op = "migrateMasterPassword" /\ last'.op = "migrateMasterPassword")
       => (masterPassword' = masterPassword /\ passwordCache' = passwordCache)]_vars

\* C9 witness: the state a migration left after it promoted the cached password
\* of the active key and purged an entry of another key with it
C9_Witness ==
    /\ last.op = "migrateMasterPassword"
    /\ Positions({"setMasterPassword"}) # {}
    /\ masterPassword # NoPassword
    /\ passwordCache[activeMasterKeyId] = NoPassword
    /\ \E id \in KeyIds : passwordCache[id] \in Passwords \ {masterPassword}

\* C10: getMasterPasswordStatus raises nothing and returns NotSet exactly when
\* no master password is stored; otherwise Loaded exactly when there is
\* neither a PPK nor a master key; otherwise Valid when masterPasswordIsValid
\* is true of the stored password and Invalid when it is false.
C10_StatusMapping ==
    last.op = "getMasterPasswordStatus" =>
        /\ last.outcome = "ok"
        /\ last.result \in {"NotSet", "Loaded", "Valid", "Invalid"}
        /\ (last.result = "NotSet") = (masterPassword = NoPassword)
        /\ masterPassword # NoPassword =>
               /\ (last.result = "Loaded") = (ppk = NoPpk /\ Len(masterKeys) = 0)
               /\ (last.result = "Valid") =
                      (MasterPasswordIsValid(Cur, masterPassword).result = "true")
               /\ (last.result = "Invalid") =
                      (MasterPasswordIsValid(Cur, masterPassword).result = "false")

\* C10 witness: a password is stored, nothing exists to check it against, and
\* the status is Loaded
C10_Witness ==
    /\ last.op = "getMasterPasswordStatus"
    /\ masterPassword # NoPassword
    /\ ppk = NoPpk
    /\ Len(masterKeys) = 0
    /\ last.result = "Loaded"

\* the known key the active id names (the empty set when it names none)
ActiveKeys == {i \in 1..Len(masterKeys) : masterKeys[i].id = activeMasterKeyId}

\* the most recently created known keys
NewestKeys ==
    {i \in 1..Len(masterKeys) :
        \A j \in 1..Len(masterKeys) : masterKeys[j].createdTime <= masterKeys[i].createdTime}

\* C11: masterPasswordIsValid(p) answers from the PPK alone when a PPK exists;
\* without a PPK it answers from the active master key when the active id
\* names a known key, else from the most recently created key; with neither
\* a PPK nor a master key it raises noKeyToDecrypt.
C11_AnchorPriority ==
    last.op = "masterPasswordIsValid" =>
        IF ppk # NoPpk
        THEN last.outcome = "ok" /\ last.result = Bool2Str(ppk.pw = last.cur)
        ELSE IF ActiveKeys # {}
        THEN /\ last.outcome = "ok"
             /\ \A i \in ActiveKeys : last.result = Bool2Str(masterKeys[i].pw = last.cur)
        ELSE IF Len(masterKeys) > 0
        THEN /\ last.outcome = "ok"
             /\ \A i \in NewestKeys : last.result = Bool2Str(masterKeys[i].pw = last.cur)
        ELSE last.outcome = "noKeyToDecrypt"

\* a PPK that the password decrypts while the active master key says no
C11_Witness ==
    /\ last.op = "masterPasswordIsValid"
    /\ ppk # NoPpk
    /\ ppk.pw = last.cur
    /\ \E i \in ActiveKeys : masterKeys[i].pw # last.cur
    /\ last.result = "true"

\* no PPK and no active key: the newest key answers, the first listed disagrees
C11_WitnessLatest ==
    /\ last.op = "masterPasswordIsValid"
    /\ ppk = NoPpk
    /\ ActiveKeys = {}
    /\ Len(masterKeys) = 2
    /\ masterKeys[1].createdTime > masterKeys[2].createdTime
    /\ masterKeys[1].pw = last.cur
    /\ masterKeys[2].pw # last.cur
    /\ last.result = "true"

MigrateCall == "migrateMasterPassword"

\* the migration applies: no master password, no PPK, and the active key is
\* known and has a cached password
MigrationApplies ==
    /\ masterPassword = NoPassword
    /\ ppk = NoPpk
    /\ \E i \in ActiveKeys : passwordCache[masterKeys[i].id] # NoPassword

\* C12: when no master password is set, no PPK exists and the active master
\* key has a cached password p, migrateMasterPassword sets the master password
\* to p and removes from the cache every entry whose value is p, under any key
\* id, and keeps every entry that has another value.
C12_MigratePurgesEqualEntries ==
    [][(last'.op = MigrateCall /\ MigrationApplies)
        => /\ last'.outcome = "ok"
           /\ masterPassword' = passwordCache[activeMasterKeyId]
           /\ \A id \in DOMAIN passwordCache :
                  passwordCache'[id] = IF passwordCache[id] = passwordCache[activeMasterKeyId]
                                       THEN NoPassword ELSE passwordCache[id]
           /\ DOMAIN passwordCache' = DOMAIN passwordCache]_vars

\* after a migration: the active key's entry is gone, an entry of another
\* key with another password is still cached
C12_Witness ==
    /\ last.op = MigrateCall
    /\ Len(last.trace) > 0
    /\ last.trace[1] = Event("setMasterPassword", NoKeyId, masterPassword)
    /\ ActiveKeys # {}
    /\ passwordCache[activeMasterKeyId] = NoPassword
    /\ \E id \in DOMAIN passwordCache :
           id # activeMasterKeyId /\ passwordCache[id] \notin {NoPassword, masterPassword}

ShowMissingCall == "showMissingMasterKeyMessage"

\* C16: showMissingMasterKeyMessage returns false whenever the synchronised
\* set of master keys is empty, for every list of flagged ids: empty, not
\* empty, with duplicates.
C16_NoKeysNothingMissing ==
    (last.op = ShowMissingCall /\ Len(masterKeys) = 0) => last.result = "false"

\* no key is known and the flagged list names an id twice
C16_Witness ==
    /\ last.op = ShowMissingCall
    /\ Len(masterKeys) = 0
    /\ \E i, j \in 1..Len(last.list) : i # j /\ last.list[i] = last.list[j]
    /\ last.result = "false"

\* C19: migrateMasterPassword leaves the master password and the password
\* cache as they are, and raises nothing, in each of these cases: a master
\* password is already set; a PPK exists; there is no active master key; the
\* active master key has no cached password, whatever is cached for other keys.
C19_MigrateNoOp ==
    [][(/\ last'.op = MigrateCall
        /\ \/ masterPassword # NoPassword
           \/ ppk # NoPpk
           \/ ActiveKeys = {}
           \/ \A i \in ActiveKeys : passwordCache[masterKeys[i].id] = NoPassword)
        => /\ last'.outcome = "ok"
           /\ last'.trace = <<>>
           /\ masterPassword' = masterPassword
           /\ passwordCache' = passwordCache]_vars

\* a call that did nothing although the cache holds the active key's
\* password: a PPK exists
C19_Witness ==
    /\ last.op = MigrateCall
    /\ last.trace = <<>>
    /\ masterPassword = NoPassword
    /\ ppk # NoPpk
    /\ ActiveKeys # {}
    /\ passwordCache[activeMasterKeyId] # NoPassword

\* a call that did nothing: the active key has no cached password, another has
C19_WitnessOtherKeyCached ==
    /\ last.op = MigrateCall
    /\ last.trace = <<>>
    /\ masterPassword = NoPassword
    /\ ppk = NoPpk
    /\ ActiveKeys # {}
    /\ passwordCache[activeMasterKeyId] = NoPassword
    /\ \E id \in DOMAIN passwordCache : passwordCache[id] # NoPassword

EnableCall == "setupAndEnableEncryption"

\* the ids that the call recorded in c handed to loadMasterKey
LoadedBy(c) == {c.trace[i].id : i \in {j \in 1..Len(c.trace) : c.trace[j].ev = "loadMasterKey"}}

\* C13: setupAndEnableEncryption(key?, password?) always ends, without an
\* error, with encryption enabled; with a key the active master key id is that
\* key's id; without a key the call sets no active id (an unset id stays
\* unset), and on an account without keys the loading it ends with loads
\* nothing.
C13_EnableAlwaysEnables ==
    [][last'.op = EnableCall
        => /\ last'.outcome = "ok"
           /\ encryptionEnabled' = TRUE
           /\ last'.key # NoKeyId => activeMasterKeyId' = last'.key
           /\ last'.key = NoKeyId => activeMasterKeyId' = activeMasterKeyId
           /\ Len(masterKeys) = 0
                 => /\ LoadedBy(last') = {}
                    /\ loadedMasterKeys' = {}
                    /\ activeMasterKeyId' = NoKeyId]_vars

\* enabling on an account without keys, no key and no password given, after
\* encryption was disabled
C13_Witness ==
    /\ last.op = EnableCall
    /\ last.key = NoKeyId
    /\ last.new = NoPassword
    /\ Len(masterKeys) = 0
    /\ encryptionEnabled
    /\ activeMasterKeyId = NoKeyId
    /\ loadedMasterKeys = {}
    /\ Len(last.trace) = 2

\* enabling with a key that was not the active one
C13_WitnessKey ==
    /\ last.op = EnableCall
    /\ last.key # NoKeyId
    /\ activeMasterKeyId = last.key
    /\ last.key \in loadedMasterKeys
    /\ encryptionEnabled

DisableCall == "setupAndDisableEncryption"

\* the known keys that no stored password decrypts
Unloadable ==
    {i \in 1..Len(masterKeys) : FindMasterKeyPassword(Cur, masterKeys[i]) # masterKeys[i].pw}

\* C14: setupAndDisableEncryption raises nothing in any state, whatever keys
\* are loaded or cannot be loaded; after it encryption is disabled, the full
\* resynchronisation of all items was requested (BaseItem.forceSyncAll), and
\* every key that was loaded is still loaded.
C14_DisableAlwaysSucceeds ==
    [][last'.op = DisableCall
        => /\ last'.outcome = "ok"
           /\ encryptionEnabled' = FALSE
           /\ \E i \in 1..Len(last'.trace) : last'.trace[i].ev = "forceSyncAll"
           /\ loadedMasterKeys \subseteq loadedMasterKeys']_vars

\* disabled with one key loaded and one key that no stored password decrypts
C14_Witness ==
    /\ last.op = DisableCall
    /\ ~encryptionEnabled
    /\ loadedMasterKeys # {}
    /\ \E i \in Unloadable : masterKeys[i].id \notin loadedMasterKeys
    /\ \E i \in 1..Len(last.trace) : last.trace[i].ev = "warn"

\* positions of the calls of loadMasterKey in the trace of the call c
LoadPositions(c) == {i \in 1..Len(c.trace) : c.trace[i].ev = "loadMasterKey"}

\* C18: loadMasterKeysFromSettings never hands the service a key with an
\* empty or absent password: a key for which no password is found is skipped
\* and stays unloaded; and a key that is already loaded is never handed to
\* loadMasterKey again.
C18_NoEmptyPasswordNoReload ==
    [][last'.op \in LoadingCalls
        => /\ \A i \in LoadPositions(last') :
                  /\ last'.trace[i].pw # NoPassword
                  /\ last'.trace[i].id \notin loadedMasterKeys
                  /\ \A j \in LoadPositions(last') :
                         (j > i /\ last'.trace[j].id = last'.trace[i].id)
                             => last'.trace[i].id \notin loadedMasterKeys'
           /\ \A k \in 1..Len(masterKeys') :
                  (/\ FindMasterKeyPassword([masterPassword |-> masterPassword',
                                             passwordCache |-> passwordCache'],
                                            masterKeys'[k]) = NoPassword
                   /\ masterKeys'[k].id \notin loadedMasterKeys)
                      => /\ masterKeys'[k].id \notin LoadedBy(last')
                         /\ masterKeys'[k].id \notin loadedMasterKeys']_vars

\* one call of loadMasterKeysFromSettings that skipped a key without a
\* password, loaded another key, and left alone a key loaded before
C18_Witness ==
    /\ last.op = "loadMasterKeysFromSettings"
    /\ Len(masterKeys) = 2
    /\ \E a, b \in 1..2 :
           /\ a # b
           /\ FindMasterKeyPassword(Cur, masterKeys[a]) = NoPassword
           /\ masterKeys[a].id \notin loadedMasterKeys
           /\ masterKeys[b].id \in LoadedBy(last)
           /\ masterKeys[b].id \in loadedMasterKeys

\* a call that found a key loaded and did not hand it to the service
C18_WitnessLoaded ==
    /\ last.op \in LoadingCalls
    /\ loadedMasterKeys # {}
    /\ LoadedBy(last) = {}

HookEvent == "waitForSyncFinishedThenSync"

\* positions of the start of the hook in the trace of the call c
HookPositions(c) == {i \in 1..Len(c.trace) : c.trace[i].ev = HookEvent}

\* C20: updateMasterPassword starts the hook waitForSyncFinishedThenSync at
\* most once per call, only after it has written the new master password,
\* never in a call that fails; and it returns without waiting for the hook:
\* the hook it started is still running when the call has returned.
C20_HookOnceAfterCommit ==
    [][last'.op = UpdateCall
        => /\ Cardinality(HookPositions(last')) <= 1
           /\ last'.outcome # "ok" => HookPositions(last') = {}
           /\ \A h \in HookPositions(last') :
                  /\ last'.flag
                  /\ masterPassword' = last'.new
                  /\ \E w \in 1..(h - 1) :
                         last'.trace[w] = Event("setMasterPassword", NoKeyId, last'.new)
                  /\ \A j \in 1..Len(last'.trace) :
                         last'.trace[j].ev \in WriteEvents \cup ReencryptEvents => j < h
           /\ pendingHooks' = pendingHooks + Cardinality(HookPositions(last'))]_vars

\* a password change of a key and the PPK returned, its hook still running
C20_Witness ==
    /\ last.op = UpdateCall
    /\ last.flag
    /\ last.outcome = "ok"
    /\ HookPositions(last) # {}
    /\ pendingHooks = 1
    /\ Len(masterKeys) > 0
    /\ ppk # NoPpk
    /\ masterPassword = last.new

\* a password change with a hook failed: the hook was not started
C20_WitnessFailed ==
    /\ last.op = UpdateCall
    /\ last.flag
    /\ last.outcome = "ReencryptionFailed"
    /\ HookPositions(last) = {}
    /\ pendingHooks = 0

C17_WitnessRead ==
    /\ last.op = "read"
    /\ ~HasRow(itemContent, last.key)
    /\ last.outcome = "NoSuchRow"
    /\ \E id \in ItemIds : HasRow(itemContent, id)

\* what one loadMasterKeysFromSettings alone leaves in a service that had
\* loaded nothing
SingleLoad ==
    LoadMasterKeysFromSettings([Cur EXCEPT !.loadedMasterKeys = {},
                                           !.serviceActiveId = NoKeyId])

\* no invocation is in progress and one at least has run to its end
Quiescent ==
    /\ \A p \in Invocations : loaders[p].pc \in {"idle", "done"}
    /\ \E p \in Invocations : loaders[p].pc = "done"

\* C15: two invocations of loadMasterKeysFromSettings, started again and again,
\* their steps between awaits interleaved in any order over a registry and
\* settings that do not change: neither raises; a key that is loaded stays
\* loaded and the active key of the service is not replaced by another; and
\* whenever none is in progress, the loaded keys and the active key of the
\* service are those that one invocation alone would have left.
C15_ConcurrentLoadSafe ==
    /\ [](\A p \in Invocations : loaders[p].error = "ok" /\ loaders[p].pc # "failed")
    /\ [](Quiescent => /\ loadedMasterKeys = SingleLoad.loadedMasterKeys
                       /\ serviceActiveId = SingleLoad.serviceActiveId)
    /\ [][/\ loadedMasterKeys \subseteq loadedMasterKeys'
          /\ serviceActiveId # NoKeyId => serviceActiveId' = serviceActiveId]_vars

\* both invocations ran to their end, and both handed the same key to
\* loadMasterKey: each had found it not loaded before the other loaded it
C15_Witness ==
    /\ \A p \in Invocations : loaders[p].pc = "done"
    /\ \E id \in loaders[1].calls \cap loaders[2].calls : id \in loadedMasterKeys
    /\ Cardinality(loadedMasterKeys) = 2
    /\ serviceActiveId # NoKeyId

====
